---- MODULE Spec2Model ----
(***************************************************************************)
(* Account scaffolding and metadata synchronisation of the gofinfi worker. *)
(*                                                                         *)
(* The object store is a map from keys to objects.  A key, like every      *)
(* other Python str of the program, is a sequence of tokens: a token is a  *)
(* one-character string ("/", "-", "A") or a word the program only ever    *)
(* handles whole ("profiles", ".keep", "notes.md").  The delimiter "/" is  *)
(* always a token of its own, so prefix tests, split("/") and the          *)
(* delimiter-bounded listing of S3 work on keys as they do on strings.     *)
(***************************************************************************)
EXTENDS Integers, Sequences, FiniteSets, TLC

VARIABLES
    cfg,        \* the environment toggles read at import (aws.py 11-16, api_v201.py 16)
    store,      \* the bucket: key -> object
    now,        \* the wall clock, in whole seconds
    last,       \* the last call made: its kind, input and outcome
    prev,       \* the bucket as it was before the last call; before the failed call, when
                \* the last call is the retry of a call that failed
    nops,       \* the number of steps taken so far
    calls       \* the refresh calls in flight: where each stands and what it listed

vars == <<cfg, store, now, last, prev, nops, calls>>

\* ------------------------------------------------------------------ bounds
\* steps taken in one behaviour
MaxSteps == 3
\* the last second of the clock
MaxClock == 1

\* ------------------------------------------------------------ Python str
\* None, as distinct from every str
NONE == <<"<None>">>

Truthy(x) == x # NONE /\ x # <<>>

\* x or y
Or(x, y) == IF Truthy(x) THEN x ELSE y

StartsWith(s, p) ==
    /\ Len(s) >= Len(p)
    /\ \A i \in 1..Len(p) : s[i] = p[i]

EndsWith(s, p) ==
    /\ Len(s) >= Len(p)
    /\ \A i \in 1..Len(p) : s[Len(s) - Len(p) + i] = p[i]

\* s[a:b] with 0-based a, b as in Python, clipped to the string
Slice(s, a, b) ==
    LET hi == IF b < Len(s) THEN b ELSE Len(s)
    IN  IF a >= hi THEN <<>> ELSE SubSeq(s, a + 1, hi)

\* s.replace(c, d) for a one-token pattern c
ReplaceChar(s, c, d) == [i \in 1..Len(s) |-> IF s[i] = c THEN d ELSE s[i]]

\* s.replace(p, "") : every non-overlapping occurrence of p, left to right
RECURSIVE RemoveAll(_, _)
RemoveAll(s, p) ==
    IF s = <<>> \/ p = <<>> THEN s
    ELSE IF StartsWith(s, p) THEN RemoveAll(SubSeq(s, Len(p) + 1, Len(s)), p)
    ELSE <<Head(s)>> \o RemoveAll(Tail(s), p)

IsSpace(c) == c \in {" ", "\t", "\n"}

RECURSIVE LStrip(_)
LStrip(s) == IF s # <<>> /\ IsSpace(Head(s)) THEN LStrip(Tail(s)) ELSE s

RECURSIVE RStrip(_)
RStrip(s) ==
    IF s # <<>> /\ IsSpace(s[Len(s)]) THEN RStrip(SubSeq(s, 1, Len(s) - 1)) ELSE s

\* s.strip()
Strip(s) == RStrip(LStrip(s))

\* s.rstrip("/")
RECURSIVE RStripSlash(_)
RStripSlash(s) ==
    IF s # <<>> /\ s[Len(s)] = "/" THEN RStripSlash(SubSeq(s, 1, Len(s) - 1)) ELSE s

\* s.split("/")[-1] : what follows the last "/"
RECURSIVE LastSegment(_)
LastSegment(s) ==
    IF \E i \in 1..Len(s) : s[i] = "/"
    THEN LastSegment(Tail(s))
    ELSE s

\* FlatMap over a sequence: the concatenation of F(xs[1]), F(xs[2]), ...
RECURSIVE ConcatMap(_, _)
ConcatMap(F(_), xs) ==
    IF xs = <<>> THEN <<>> ELSE F(Head(xs)) \o ConcatMap(F, Tail(xs))

\* ------------------------------------------------- aws.py: identifiers
AcidPrefix == <<"a", "c", "i", "d", "-">>

fmt_acid_display(acid_raw) ==
    IF ~Truthy(acid_raw) THEN acid_raw
    ELSE IF StartsWith(acid_raw, AcidPrefix) THEN acid_raw
    ELSE IF Len(acid_raw) >= 9
         THEN AcidPrefix \o Slice(acid_raw, 0, 3) \o <<"-">> \o Slice(acid_raw, 3, 5)
                         \o <<"-">> \o Slice(acid_raw, 5, 9)
    ELSE acid_raw

\* to_raw_acid as it would be if it took the prefix off and left the dashes
to_raw_acid_keeping_dashes(acid_or_display) ==
    IF ~Truthy(acid_or_display) THEN acid_or_display
    ELSE IF StartsWith(acid_or_display, AcidPrefix)
         THEN RemoveAll(acid_or_display, AcidPrefix)
         ELSE acid_or_display

to_raw_acid(acid_or_display) ==
    IF ~Truthy(acid_or_display) THEN acid_or_display
    ELSE IF StartsWith(acid_or_display, AcidPrefix)
         THEN RemoveAll(RemoveAll(acid_or_display, AcidPrefix), <<"-">>)
    ELSE acid_or_display

normalize_acid(acid_or_display) ==
    LET raw == to_raw_acid(acid_or_display)
        disp == fmt_acid_display(IF Truthy(raw) THEN raw ELSE acid_or_display)
    IN  [raw |-> raw, disp |-> disp]

sanitize_name(name) ==
    Or(Strip(ReplaceChar(ReplaceChar(Or(name, <<>>), "/", "-"), "\\", "-")), <<"Unnamed">>)

\* ------------------------------------------------- aws.py: object writer
S3_BUCKET == <<"gofinfi-portal">>

NoContentType == "<absent>"

_sse_kwargs ==
    IF Truthy(cfg.kms) THEN <<"aws:kms">> \o cfg.kms ELSE <<"AES256">>

\* tags as a writer that stamped every write with the time of the write would set them
_taggingStamped(acid, org_id) ==
    <<"acid=">> \o acid \o (IF Truthy(org_id) THEN <<"&", "org=">> \o org_id ELSE <<>>)
    \o <<"&", "at=", ToString(now)>>

_tagging(acid, org_id) ==
    <<"acid=">> \o acid \o (IF Truthy(org_id) THEN <<"&", "org=">> \o org_id ELSE <<>>)

\* one s3.put_object call: the key and the object it leaves there
Put(key, body, ctype, tags, sse) ==
    [key |-> key, obj |-> [body |-> body, ctype |-> ctype, tags |-> tags, sse |-> sse]]

TextBody(text) == [text |-> text]

put_empty(key, acid, org_id) ==
    <<Put(key, TextBody(<<>>), NoContentType, _tagging(acid, org_id), _sse_kwargs)>>

put_text(key, text, acid, org_id, content_type) ==
    <<Put(key, TextBody(text), content_type, _tagging(acid, org_id), _sse_kwargs)>>

put_bytes(key, data, acid, org_id, content_type) ==
    <<Put(key, TextBody(data), content_type, _tagging(acid, org_id), _sse_kwargs)>>

\* json.dumps(obj, separators=(",", ":"), ensure_ascii=False)
put_json(key, obj, acid, org_id) ==
    <<Put(key, [json |-> obj, fmt |-> "compact"], "application/json",
          _tagging(acid, org_id), _sse_kwargs)>>

\* the writes of a call, applied in order: the last write of a key wins
\* a store whose puts never replace an object already there
ApplyWritesIfAbsent(s, ws) ==
    LET written == {ws[i].key : i \in 1..Len(ws)}
        firstOf(k) ==
            LET at == {i \in 1..Len(ws) : ws[i].key = k}
            IN  CHOOSE i \in at : \A j \in at : i <= j
    IN  [k \in DOMAIN s \cup written |-> IF k \in DOMAIN s THEN s[k] ELSE ws[firstOf(k)].obj]

ApplyWrites(s, ws) ==
    LET written == {ws[i].key : i \in 1..Len(ws)}
        lastOf(k) ==
            LET at == {i \in 1..Len(ws) : ws[i].key = k}
            IN  CHOOSE i \in at : \A j \in at : j <= i
    IN  [k \in DOMAIN s \cup written |-> IF k \in written THEN ws[lastOf(k)].obj ELSE s[k]]

\* ------------------------------------------------- aws.py: key layout
_prefix_for(name, level, numbered) ==
    IF numbered THEN <<level, "-", name, "/">> ELSE <<name, "/">>

\* the order of the dict literal, which is the order tops.values() is written in
SectionOrder ==
    <<"_meta", "uploads", "intake", "profiles", "applications",
      "exports", "shared", "worklog", "archive">>

SectionLevel ==
    [_meta |-> "00", uploads |-> "10", intake |-> "20", profiles |-> "30",
     applications |-> "50", exports |-> "60", shared |-> "70", worklog |-> "80",
     archive |-> "90"]

_folders_top(base, numbered) ==
    [n \in DOMAIN SectionLevel |-> base \o _prefix_for(n, SectionLevel[n], numbered)]

_ensure_folders(prefixes, acid, org_id) ==
    LET one(p0) ==
            LET p == IF EndsWith(p0, <<"/">>) THEN p0 ELSE p0 \o <<"/">>
            IN  put_empty(p, acid, org_id)
                \o (IF cfg.keep THEN put_empty(p \o <<".keep">>, acid, org_id) ELSE <<>>)
    IN  ConcatMap(one, prefixes)

\* ------------------------------------------------- aws.py: profile seeding
MD == "text/markdown"

\* the writes of _seed_from_payload for one person of the payload
SeedPerson(profiles, p, acid_raw, org_id) ==
    LET pname == sanitize_name(Or(p.name, <<"Unnamed Person">>))
        root == profiles \o <<"person", "/">> \o pname \o <<"/">>
        vehicle(v) ==
            LET vname == sanitize_name(v)
                vroot == root \o <<"vehicle", "/">> \o vname \o <<"/">>
            IN  _ensure_folders(<<vroot>>, acid_raw, org_id)
                \o put_text(vroot \o <<"notes.md">>, <<"# ">> \o vname \o <<"\n">>,
                            acid_raw, org_id, MD)
        device(d) ==
            LET dname == sanitize_name(d)
                droot == root \o <<"device", "/">> \o dname \o <<"/">>
            IN  _ensure_folders(<<droot>>, acid_raw, org_id)
                \o put_text(droot \o <<"notes.md">>, <<"# ">> \o dname \o <<"\n">>,
                            acid_raw, org_id, MD)
    IN  _ensure_folders(<<root, root \o <<"documents", "/">>, root \o <<"vehicle", "/">>,
                          root \o <<"device", "/">>>>, acid_raw, org_id)
        \o (IF Truthy(p.notes)
            THEN put_text(root \o <<"notes.md">>,
                          <<"# ">> \o pname \o <<"\n\n">> \o p.notes \o <<"\n">>,
                          acid_raw, org_id, MD)
            ELSE <<>>)
        \o ConcatMap(vehicle, p.vehicles)
        \o ConcatMap(device, p.devices)

\* the writes of _seed_from_payload for one company of the payload
SeedCompany(profiles, c, acid_raw, org_id) ==
    LET cname == sanitize_name(Or(c.name, <<"Unnamed Company">>))
        root == profiles \o <<"company", "/">> \o cname \o <<"/">>
        domain(dom) ==
            LET dname == sanitize_name(dom)
                droot == root \o <<"domain", "/">> \o dname \o <<"/">>
            IN  _ensure_folders(<<droot>>, acid_raw, org_id)
                \o put_text(droot \o <<"notes.md">>, <<"# ">> \o dname \o <<"\n">>,
                            acid_raw, org_id, MD)
                \o put_text(droot \o <<"dns-records.txt">>, <<>>, acid_raw, org_id,
                            "text/plain")
    IN  _ensure_folders(<<root, root \o <<"legal", "/">>, root \o <<"financials", "/">>,
                          root \o <<"domain", "/">>>>, acid_raw, org_id)
        \o (IF Truthy(c.notes)
            THEN put_text(root \o <<"notes.md">>,
                          <<"# ">> \o cname \o <<"\n\n">> \o c.notes \o <<"\n">>,
                          acid_raw, org_id, MD)
            ELSE <<>>)
        \o ConcatMap(domain, c.domains)

\* the "created" summary _seed_from_payload returns
SeedCreated(payload) ==
    [persons |-> [i \in 1..Len(payload.persons) |->
                    sanitize_name(Or(payload.persons[i].name, <<"Unnamed Person">>))],
     companies |-> [i \in 1..Len(payload.companies) |->
                    sanitize_name(Or(payload.companies[i].name, <<"Unnamed Company">>))]]

\* the writes of _seed_from_payload
_seed_from_payload(tops, payload, acid_raw, org_id) ==
    LET person(p) == SeedPerson(tops["profiles"], p, acid_raw, org_id)
        company(c) == SeedCompany(tops["profiles"], c, acid_raw, org_id)
    IN  ConcatMap(person, payload.persons) \o ConcatMap(company, payload.companies)

\* defaults as a seeder that made them only when the payload held nothing at all would
\* write them
_seed_defaults_if_nothing(tops, created_summary, acid_raw, org_id) ==
    LET profiles == tops["profiles"]
        proot == profiles \o <<"person", "/", "Default Person", "/">>
        vroot == proot \o <<"vehicle", "/", "Default Vehicle", "/">>
        droot == proot \o <<"device", "/", "Default Device", "/">>
        croot == profiles \o <<"company", "/", "Default Company", "/">>
    IN  IF created_summary.persons = <<>> /\ created_summary.companies = <<>>
        THEN _ensure_folders(<<proot, proot \o <<"documents", "/">>,
                               proot \o <<"vehicle", "/">>, proot \o <<"device", "/">>>>,
                             acid_raw, org_id)
             \o put_text(proot \o <<"notes.md">>, <<"# Default Person\n">>,
                         acid_raw, org_id, MD)
             \o _ensure_folders(<<vroot, droot>>, acid_raw, org_id)
             \o put_text(vroot \o <<"notes.md">>, <<"# Default Vehicle\n">>,
                         acid_raw, org_id, MD)
             \o put_text(droot \o <<"notes.md">>, <<"# Default Device\n">>,
                         acid_raw, org_id, MD)
             \o _ensure_folders(<<croot, croot \o <<"legal", "/">>,
                                  croot \o <<"financials", "/">>>>, acid_raw, org_id)
             \o put_text(croot \o <<"notes.md">>, <<"# Default Company\n">>,
                         acid_raw, org_id, MD)
        ELSE <<>>

\* the writes of _seed_defaults_if_empty
_seed_defaults_if_empty(tops, created_summary, acid_raw, org_id) ==
    LET profiles == tops["profiles"]
        proot == profiles \o <<"person", "/", "Default Person", "/">>
        vroot == proot \o <<"vehicle", "/", "Default Vehicle", "/">>
        droot == proot \o <<"device", "/", "Default Device", "/">>
        croot == profiles \o <<"company", "/", "Default Company", "/">>
    IN  (IF created_summary.persons = <<>>
         THEN _ensure_folders(<<proot, proot \o <<"documents", "/">>,
                                proot \o <<"vehicle", "/">>, proot \o <<"device", "/">>>>,
                              acid_raw, org_id)
              \o put_text(proot \o <<"notes.md">>, <<"# Default Person\n">>,
                          acid_raw, org_id, MD)
              \o _ensure_folders(<<vroot, droot>>, acid_raw, org_id)
              \o put_text(vroot \o <<"notes.md">>, <<"# Default Vehicle\n">>,
                          acid_raw, org_id, MD)
              \o put_text(droot \o <<"notes.md">>, <<"# Default Device\n">>,
                          acid_raw, org_id, MD)
         ELSE <<>>)
        \o
        (IF created_summary.companies = <<>>
         THEN _ensure_folders(<<croot, croot \o <<"legal", "/">>,
                                croot \o <<"financials", "/">>>>, acid_raw, org_id)
              \o put_text(croot \o <<"notes.md">>, <<"# Default Company\n">>,
                          acid_raw, org_id, MD)
         ELSE <<>>)

\* ------------------------------------------------- aws.py: legacy demo set
PDF == "application/pdf"

\* the writes of _seed_sample_files_legacy
_seed_sample_files_legacy(tops, acid_raw, org_id) ==
    LET apps == tops["applications"]
        profiles == tops["profiles"]
        dd == profiles \o <<"person", "/", "Don Draper", "/">>
        mustang == dd \o <<"vehicle", "/", "Mustang-1965", "/">>
        iphone == dd \o <<"device", "/", "iPhone15", "/">>
        sc == profiles \o <<"company", "/", "SterlingCooper", "/">>
        domain == sc \o <<"domain", "/", "sterlingcooper.com", "/">>
        doc(f) == put_bytes(dd \o <<"documents", "/", f>>, <<"%PDF-1.4\n% placeholder\n">>,
                            acid_raw, org_id, PDF)
        legal(f) == put_bytes(sc \o <<"legal", "/", f>>, <<"%PDF-1.4\n">>,
                              acid_raw, org_id, PDF)
        fin(f) == put_bytes(sc \o <<"financials", "/", f>>, <<"%PDF-1.4\n">>,
                            acid_raw, org_id, PDF)
    IN  put_bytes(apps \o <<"package.pdf">>, <<"%PDF-1.4\n% placeholder package\n">>,
                  acid_raw, org_id, PDF)
        \o put_bytes(apps \o <<"decision-letter.pdf">>,
                     <<"%PDF-1.4\n% placeholder decision\n">>, acid_raw, org_id, PDF)
        \o put_text(profiles \o <<"profiles.md">>,
                    <<"# Profiles\n\nGlobal notes for all profiles.\n">>, acid_raw, org_id, MD)
        \o _ensure_folders(<<dd, dd \o <<"documents", "/">>, dd \o <<"vehicle", "/">>,
                             dd \o <<"device", "/">>>>, acid_raw, org_id)
        \o put_text(dd \o <<"notes.md">>, <<"# Don Draper\n\nNotes go here.\n">>,
                    acid_raw, org_id, MD)
        \o ConcatMap(doc, <<"passport.pdf", "driver-license.pdf", "utility-bill.pdf",
                            "bank-statement-proof.pdf", "contract.pdf">>)
        \o _ensure_folders(<<mustang>>, acid_raw, org_id)
        \o put_text(mustang \o <<"notes.md">>, <<"# Mustang 1965\n">>, acid_raw, org_id, MD)
        \o put_bytes(mustang \o <<"title.pdf">>, <<"%PDF-1.4\n">>, acid_raw, org_id, PDF)
        \o put_bytes(mustang \o <<"insurance.pdf">>, <<"%PDF-1.4\n">>, acid_raw, org_id, PDF)
        \o _ensure_folders(<<iphone>>, acid_raw, org_id)
        \o put_text(iphone \o <<"notes.md">>, <<"# iPhone 15\n">>, acid_raw, org_id, MD)
        \o put_text(iphone \o <<"imei.txt">>, <<"IMEI: 000000000000000\n">>,
                    acid_raw, org_id, "text/plain")
        \o _ensure_folders(<<sc, sc \o <<"legal", "/">>, sc \o <<"financials", "/">>,
                             sc \o <<"domain", "/">>>>, acid_raw, org_id)
        \o put_text(sc \o <<"notes.md">>, <<"# Sterling Cooper\n">>, acid_raw, org_id, MD)
        \o ConcatMap(legal, <<"articles.pdf", "operating-agreement.pdf",
                              "certificate-of-good-standing.pdf",
                              "ein-verification-letter.pdf", "business-license.pdf",
                              "bank-resolution.pdf">>)
        \o ConcatMap(fin, <<"monthly-statement-2025-07.pdf", "monthly-statement-2025-06.pdf",
                            "monthly-statement-2025-05.pdf", "tax-return-2023.pdf",
                            "tax-return-2024.pdf">>)
        \o _ensure_folders(<<domain>>, acid_raw, org_id)
        \o put_text(domain \o <<"notes.md">>, <<"# sterlingcooper.com\n">>,
                    acid_raw, org_id, MD)
        \o put_text(domain \o <<"dns-records.txt">>, <<"A 1.2.3.4\nCNAME www -> apex\n">>,
                    acid_raw, org_id, "text/plain")

\* ------------------------------------------------- aws.py: provision_account
\* int(time.time())
EpochSeconds(t) == <<"int", t>>

\* the base prefix provision_account returns
ProvisionBase(acid_input) == <<"a", "/">> \o normalize_acid(acid_input).disp \o <<"/">>

\* the writes of provision_account, in program order, for a call made at time t;
\* req is [acid, org_id, name, persons, companies]
provision_account(req, t) ==
    LET acid_raw == normalize_acid(req.acid).raw
        acid_disp == normalize_acid(req.acid).disp
        org_id == req.org_id
        base == <<"a", "/">> \o acid_disp \o <<"/">>
        tops == _folders_top(base, cfg.numbered)
        links == [k \in DOMAIN tops |-> <<"s3://">> \o S3_BUCKET \o <<"/">> \o tops[k]]
        account_json ==
            [acid |-> acid_raw, acid_display |-> acid_disp, org_id |-> org_id,
             name |-> req.name, links |-> links,
             layout |-> IF cfg.numbered THEN "numbered" ELSE "classic",
             version |-> 2, created_at |-> EpochSeconds(t)]
        payload == [persons |-> req.persons, companies |-> req.companies]
        created == SeedCreated(payload)
    IN  _ensure_folders([i \in 1..Len(SectionOrder) |-> tops[SectionOrder[i]]],
                        acid_raw, org_id)
        \o put_json(tops["_meta"] \o <<"account.json">>, account_json, acid_raw, org_id)
        \o put_json(tops["_meta"] \o <<"relationships.json">>,
                    [people |-> <<>>, companies |-> <<>>], acid_raw, org_id)
        \o put_text(tops["shared"] \o <<"checklist.gdoc.link">>,
                    <<"{\"note\": \"Replace with a signed S3 URL or pointer to exports/\"}">>,
                    acid_raw, org_id, "application/json")
        \o put_text(tops["worklog"] \o <<"progress-log.md">>, <<"# Progress Log\n">>,
                    acid_raw, org_id, MD)
        \o put_text(tops["worklog"] \o <<"decisions.md">>, <<"# Decisions\n">>,
                    acid_raw, org_id, MD)
        \o put_text(tops["profiles"] \o <<"profiles.md">>,
                    <<"# Profiles\n\nLoose notes on profile changes.\n">>,
                    acid_raw, org_id, MD)
        \o _seed_from_payload(tops, payload, acid_raw, org_id)
        \o _seed_defaults_if_empty(tops, created, acid_raw, org_id)
        \o (IF cfg.samples THEN _seed_sample_files_legacy(tops, acid_raw, org_id) ELSE <<>>)

\* ------------------------------------------------- S3: list_objects_v2
\* The most entries (keys and common prefixes together) one list_objects_v2 call
\* returns when the caller passes no MaxKeys: 1000 in S3, scaled down here.
MaxKeys == 3

\* The byte order of the tokens that can start or continue a listed entry.  A word
\* stands where the name it spells, followed by "/", sorts.
Rank(tok) ==
    CASE tok = "\t" -> 900
      [] tok = "\n" -> 1000
      [] tok = " " -> 3200
      [] tok = "-" -> 4500
      [] tok = ".keep" -> 4600
      [] tok = "/" -> 4700
      [] tok = "A" -> 6500
      [] tok = "B" -> 6600
      [] tok = "C" -> 6700
      [] tok = "Company" -> 6701
      [] tok = "Default Company" -> 6801
      [] tok = "Default Device" -> 6802
      [] tok = "Default Person" -> 6803
      [] tok = "Default Vehicle" -> 6804
      [] tok = "Don Draper" -> 6805
      [] tok = "Mustang-1965" -> 7700
      [] tok = "Person" -> 8000
      [] tok = "SterlingCooper" -> 8300
      [] tok = "Unnamed Company" -> 8501
      [] tok = "Unnamed Person" -> 8502
      [] tok = "Unnamed" -> 8503
      [] tok = "\\" -> 9200
      [] tok = "iPhone15" -> 10500
      [] tok = "sterlingcooper.com" -> 11500

\* a < b in the order S3 lists keys in
RECURSIVE KeyLess(_, _)
KeyLess(a, b) ==
    IF a = <<>> THEN b # <<>>
    ELSE IF b = <<>> THEN FALSE
    ELSE IF a[1] = b[1] THEN KeyLess(Tail(a), Tail(b))
    ELSE Rank(a[1]) < Rank(b[1])

\* the index of the first "/" of s, or 0
FirstSlash(s) ==
    IF \E i \in 1..Len(s) : s[i] = "/"
    THEN CHOOSE i \in 1..Len(s) : s[i] = "/" /\ \A j \in 1..(i - 1) : s[j] # "/"
    ELSE 0

\* Every entry a complete listing of Prefix=prefix, Delimiter="/" holds: what follows
\* the prefix, cut after the first "/" (a common prefix) or whole (a key of Contents)
ListingEntries(s, prefix) ==
    { LET rest == SubSeq(k, Len(prefix) + 1, Len(k))
          cut == FirstSlash(rest)
      IN  IF cut = 0 THEN rest ELSE SubSeq(rest, 1, cut)
      : k \in {k \in DOMAIN s : StartsWith(k, prefix)} }

\* the entries of a set in listing order
SortEntries(es) ==
    [i \in 1..Cardinality(es) |->
        CHOOSE e \in es : Cardinality({f \in es : KeyLess(f, e)}) = i - 1]

\* r.get("CommonPrefixes", []) of ONE call s3.list_objects_v2(Prefix=prefix,
\* Delimiter="/"): the common prefixes among the first MaxKeys entries, in order
list_objects_v2(s, prefix) ==
    LET all == SortEntries(ListingEntries(s, prefix))
        page == SubSeq(all, 1, IF Len(all) < MaxKeys THEN Len(all) ELSE MaxKeys)
        isCP(e) == e # <<>> /\ e[Len(e)] = "/"
        cps == SelectSeq(page, isCP)
    IN  [i \in 1..Len(cps) |-> prefix \o cps[i]]

\* ------------------------------------------------- api_v201.py: helpers
\* datetime.now(timezone.utc)...isoformat()
_iso_now(t) == <<"iso", t>>

_fmt_acid_display(acid) ==
    LET a == Strip(acid)
    IN  IF StartsWith(a, AcidPrefix) THEN a
        ELSE IF Len(a) >= 9
             THEN AcidPrefix \o Slice(a, 0, 3) \o <<"-">> \o Slice(a, 3, 5)
                             \o <<"-">> \o Slice(a, 5, 9)
        ELSE AcidPrefix \o a

\* s3.put_object without Tagging and without ServerSideEncryption
ApiPut(key, body, ctype) == <<Put(key, body, ctype, NONE, NONE)>>

_ensure_folder(prefix0) ==
    LET prefix == IF EndsWith(prefix0, <<"/">>) THEN prefix0 ELSE prefix0 \o <<"/">>
    IN  ApiPut(prefix, TextBody(<<>>), NoContentType)
        \o (IF cfg.keep THEN ApiPut(prefix \o <<".keep">>, TextBody(<<>>), NoContentType)
            ELSE <<>>)

_put_text(key, text, content_type) == ApiPut(key, TextBody(text), content_type)

\* json.dumps(obj, indent=2)
_put_json(key, obj) == ApiPut(key, [json |-> obj, fmt |-> "indent2"], "application/json")

_base(acid_display) == <<"a", "/">> \o acid_display \o <<"/">>

_profiles_base(acid_display) == _base(acid_display) \o <<"profiles", "/">>

\* the writes of _ensure_top
_ensure_top(acid_display) ==
    LET base == _base(acid_display)
        folder(name) == _ensure_folder(base \o <<name, "/">>)
    IN  ConcatMap(folder, SectionOrder)
        \o _put_text(base \o <<"profiles", "/", "profiles.md">>, <<"# Profiles\n">>, MD)

\* ------------------------------------------------- api_v201.py: discovery
EntityName(path) == LastSegment(RStripSlash(path))

\* r1 as a discoverer that trusts the relationships.json it wrote last would compute it
ListPersonsCached(s, acid_display) ==
    LET key == _base(acid_display) \o <<"_meta", "/", "relationships.json">>
    IN  IF key \in DOMAIN s
        THEN [i \in 1..Len(s[key].body.json.people) |-> s[key].body.json.people[i].path]
        ELSE list_objects_v2(s, _profiles_base(acid_display) \o <<"person", "/">>)

\* r1: the person prefixes the one listing call of profiles/person/ returns
ListPersons(s, acid_display) ==
    list_objects_v2(s, _profiles_base(acid_display) \o <<"person", "/">>)

\* r4: the company prefixes the one listing call of profiles/company/ returns
ListCompanies(s, acid_display) ==
    list_objects_v2(s, _profiles_base(acid_display) \o <<"company", "/">>)

\* (profiles_summary, relationships) of _discover_profiles, read from store s at time t
_discover_profiles(s, acid_display, t) ==
    LET r1 == ListPersons(s, acid_display)
        r4 == ListCompanies(s, acid_display)
        entity(path) == <<[name |-> EntityName(path), path |-> path]>>
        owned(kind, otype, opath) ==
            LET r == list_objects_v2(s, opath \o <<kind, "/">>)
            IN  [i \in 1..Len(r) |->
                    [name |-> EntityName(r[i]), owner_type |-> otype,
                     owner_name |-> EntityName(opath), path |-> r[i]]]
        devs(ppath) == owned("device", "person", ppath)
        vehs(ppath) == owned("vehicle", "person", ppath)
        doms(cpath) == owned("domain", "company", cpath)
        people == ConcatMap(entity, r1)
        companies == ConcatMap(entity, r4)
    IN  [profiles_summary |-> [persons |-> people, companies |-> companies],
         relationships |->
            [people |-> people, companies |-> companies,
             devices |-> ConcatMap(devs, r1), vehicles |-> ConcatMap(vehs, r1),
             domains |-> ConcatMap(doms, r4), generated_at |-> _iso_now(t)]]

\* ------------------------------------------------- api_v201.py: _refresh_meta
AccountKey(acid_display) == _base(acid_display) \o <<"_meta", "/", "account.json">>

RelationshipsKey(acid_display) ==
    _base(acid_display) \o <<"_meta", "/", "relationships.json">>

\* the account document as a refresh that took the embedded profiles from the
\* relationships.json already stored, when there is one, would build it
RefreshAccountFromStored(s, acid, org_id, name, t) ==
    LET acid_display == _fmt_acid_display(acid)
        base == _base(acid_display)
        link(sec) == <<"s3://">> \o S3_BUCKET \o <<"/">> \o base \o <<sec, "/">>
        stored == RelationshipsKey(acid_display)
    IN  [acid |-> RemoveAll(acid, AcidPrefix), acid_display |-> acid_display,
         org_id |-> org_id, name |-> name, created_at |-> _iso_now(t),
         layout |-> "classic",
         links |-> [sec \in {"uploads", "profiles", "applications", "exports", "shared",
                             "worklog", "archive", "_meta"} |-> link(sec)],
         profiles |-> IF stored \in DOMAIN s
                      THEN [persons |-> s[stored].body.json.people,
                            companies |-> s[stored].body.json.companies]
                      ELSE _discover_profiles(s, acid_display, t).profiles_summary]

\* the account document _refresh_meta builds
RefreshAccount(s, acid, org_id, name, t) ==
    LET acid_display == _fmt_acid_display(acid)
        base == _base(acid_display)
        link(sec) == <<"s3://">> \o S3_BUCKET \o <<"/">> \o base \o <<sec, "/">>
    IN  [acid |-> RemoveAll(acid, AcidPrefix), acid_display |-> acid_display,
         org_id |-> org_id, name |-> name, created_at |-> _iso_now(t),
         layout |-> "classic",
         links |-> [sec \in {"uploads", "profiles", "applications", "exports", "shared",
                             "worklog", "archive", "_meta"} |-> link(sec)],
         profiles |-> _discover_profiles(s, acid_display, t).profiles_summary]

\* the two writes of _refresh_meta, computed from store s
_refresh_meta(s, acid, org_id, name, t) ==
    LET acid_display == _fmt_acid_display(acid)
    IN  _put_json(AccountKey(acid_display), RefreshAccount(s, acid, org_id, name, t))
        \o _put_json(RelationshipsKey(acid_display),
                     _discover_profiles(s, acid_display, t).relationships)

\* ------------------------------------------------- api_v201.py: handlers
\* the store meta_refresh leaves
meta_refresh(s, acid, org_id, name, t) ==
    LET acid_display == _fmt_acid_display(acid)
        s1 == ApplyWrites(s, _ensure_top(acid_display))
    IN  ApplyWrites(s1, _refresh_meta(s1, acid_display, org_id, name, t))

\* the writes add_person makes before it refreshes the metadata
AddPersonWrites(acid_display, p) ==
    LET pname == Or(Strip(p.name), <<"Person">>)
        person_base == _profiles_base(acid_display) \o <<"person", "/">> \o pname \o <<"/">>
        device(d) ==
            LET dbase == person_base \o <<"device", "/">> \o d \o <<"/">>
            IN  _ensure_folder(dbase) \o _put_text(dbase \o <<"notes.md">>, <<>>, MD)
        vehicle(v) ==
            LET vbase == person_base \o <<"vehicle", "/">> \o v \o <<"/">>
            IN  _ensure_folder(vbase) \o _put_text(vbase \o <<"notes.md">>, <<>>, MD)
    IN  _ensure_top(acid_display)
        \o _ensure_folder(person_base)
        \o _put_text(person_base \o <<"notes.md">>, Or(p.notes, <<>>), MD)
        \o _ensure_folder(person_base \o <<"documents", "/">>)
        \o _ensure_folder(person_base \o <<"device", "/">>)
        \o _ensure_folder(person_base \o <<"vehicle", "/">>)
        \o ConcatMap(device, p.devices)
        \o ConcatMap(vehicle, p.vehicles)

\* the store add_person leaves
add_person(s, acid, org_id, name, p, t) ==
    LET acid_display == _fmt_acid_display(acid)
        s1 == ApplyWrites(s, AddPersonWrites(acid_display, p))
    IN  ApplyWrites(s1, _refresh_meta(s1, acid_display, org_id, name, t))

\* the writes add_company makes before it refreshes the metadata
AddCompanyWrites(acid_display, c) ==
    LET cname == Or(Strip(c.name), <<"Company">>)
        company_base ==
            _profiles_base(acid_display) \o <<"company", "/">> \o cname \o <<"/">>
        domain(dom) ==
            LET dbase == company_base \o <<"domain", "/">> \o dom \o <<"/">>
            IN  _ensure_folder(dbase)
                \o _put_text(dbase \o <<"notes.md">>, <<>>, MD)
                \o _put_text(dbase \o <<"dns-records.txt">>, <<>>, "text/plain")
    IN  _ensure_top(acid_display)
        \o _ensure_folder(company_base)
        \o _put_text(company_base \o <<"notes.md">>, Or(c.notes, <<>>), MD)
        \o _ensure_folder(company_base \o <<"legal", "/">>)
        \o _ensure_folder(company_base \o <<"financials", "/">>)
        \o _ensure_folder(company_base \o <<"domain", "/">>)
        \o ConcatMap(domain, c.domains)

\* the store add_company leaves
add_company(s, acid, org_id, name, c, t) ==
    LET acid_display == _fmt_acid_display(acid)
        s1 == ApplyWrites(s, AddCompanyWrites(acid_display, c))
    IN  ApplyWrites(s1, _refresh_meta(s1, acid_display, org_id, name, t))

\* ------------------------------------------------- inputs
RawAcid == <<"a", "b", "c", "1", "2", "3", "X", "Y", "Z">>

AccountName == <<"Acme">>

\* who calls: the identifier in one of its two forms, with or without an organization
Caller1 == [acid |-> RawAcid, org_id |-> NONE]
Caller2 == [acid |-> fmt_acid_display(RawAcid), org_id |-> <<"org1">>]
Callers == {Caller1, Caller2}

Person(name, notes, devices, vehicles) ==
    [name |-> name, notes |-> notes, devices |-> devices, vehicles |-> vehicles]

Company(name, notes, domains) == [name |-> name, notes |-> notes, domains |-> domains]

PersonA == Person(<<"A">>, <<"n1">>, << <<"B">> >>, <<>>)
PersonSlash == Person(<<"A", "/", "B">>, <<"n1">>, <<>>, << <<"A">> >>)
PersonDash == Person(<<"A", "-", "B">>, <<"n2">>, <<>>, <<>>)
PersonDashNoNotes == Person(<<"A", "-", "B">>, NONE, <<>>, <<>>)

CompanyC == Company(<<"C">>, <<"n3">>, << <<"A">>, <<"B">> >>)

ProvisionRequest(caller, persons, companies) ==
    [acid |-> caller.acid, org_id |-> caller.org_id, name |-> AccountName,
     persons |-> persons, companies |-> companies]

\* no payload; one person; two persons whose names collide, the second with and
\* without notes; one company and no person
ProvisionRequests ==
    {ProvisionRequest(l[1], l[2], l[3]) :
        l \in {<<Caller1, <<>>, <<>> >>,
               <<Caller2, <<PersonA>>, <<>> >>,
               <<Caller1, <<PersonSlash, PersonDash>>, <<>> >>,
               <<Caller2, <<PersonSlash, PersonDashNoNotes>>, <<CompanyC>> >>,
               <<Caller1, <<>>, <<CompanyC>> >>}}

\* the profiles prefix provisioning gives the account under the configured layout
AccountProfiles == _folders_top(ProvisionBase(RawAcid), cfg.numbered)["profiles"]

\* what an actor other than this program puts under the account: a person folder
\* added by hand
OobPerson == <<"B">>

OobKeys == {AccountProfiles \o <<"person", "/">> \o OobPerson \o <<"/">>}

\* ------------------------------------------------- the state machine
EmptyStore == <<>>

\* the last call: what it was, whether it completed, whether it repeated the completed
\* call before it, whether it retried a failed one, when it was made, and when the
\* first failed attempt of it was made
NoCall == [kind |-> "none", req |-> <<>>, ok |-> TRUE, again |-> FALSE, retry |-> FALSE,
           at |-> 0, first |-> 0]

\* the environment as deployed, and two others that between them set every toggle
\* the other way
DefaultConfig ==
    [numbered |-> FALSE, keep |-> TRUE, samples |-> FALSE, kms |-> NONE, secret |-> NONE]

Configs ==
    {DefaultConfig,
     [DefaultConfig EXCEPT !.numbered = TRUE, !.kms = <<"key-1">>, !.secret = <<"s3cret">>],
     [DefaultConfig EXCEPT !.keep = FALSE, !.samples = TRUE, !.secret = <<"s3cret">>]}

\* the two refresh calls that can be in flight together
Procs == {1, 2}

\* a refresh call not yet made: pc is where the call stands, found what its listing pass
\* returned, listed, put and wrote the order of its listing pass, of its account.json
\* write and of its relationships.json write among those of all calls
IdleCall == [pc |-> "idle", found |-> <<>>, listed |-> 0, put |-> 0, wrote |-> 0]

Init ==
    /\ cfg \in Configs
    /\ store = EmptyStore
    /\ now = 0
    /\ last = NoCall
    /\ prev = EmptyStore
    /\ nops = 0
    /\ calls = [p \in Procs |-> IdleCall]

\* the JSON body provision_account_endpoint answers a completed call with
ProvisionResponse(req) ==
    [ok |-> TRUE, acid |-> req.acid, acid_display |-> fmt_acid_display(req.acid),
     prefix |-> ProvisionBase(req.acid),
     profiles_seeded |->
        [persons_passed |-> Len(req.persons), companies_passed |-> Len(req.companies),
         defaults_used |-> (Len(req.persons) = 0 /\ Len(req.companies) = 0)]]

SameProvision(req) == last.kind = "provision" /\ last.req = req

IsRetry(req) == SameProvision(req) /\ ~last.ok

\* POST /provision-account, every write succeeding; a caller whose call failed makes
\* that call again before any other
Provision(req) ==
    /\ nops < MaxSteps
    /\ last.ok \/ IsRetry(req)
    /\ store' = ApplyWrites(store, provision_account(req, now))
    /\ last' = [kind |-> "provision", req |-> req, ok |-> TRUE,
                again |-> SameProvision(req) /\ last.ok,
                retry |-> IsRetry(req),
                at |-> now, first |-> IF IsRetry(req) THEN last.first ELSE now,
                resp |-> ProvisionResponse(req)]
    /\ prev' = IF IsRetry(req) THEN prev ELSE store
    /\ nops' = nops + 1
    /\ UNCHANGED <<cfg, now, calls>>

\* POST /provision-account whose k-th write raises: the writes before it stay, the
\* endpoint answers 500. One failure per call, and none so late that the call
\* could not be made again.
ProvisionAbort(req, k) ==
    LET ws == provision_account(req, now)
    IN  /\ nops + 1 < MaxSteps
        /\ last.ok
        /\ k \in 1..Len(ws)
        /\ store' = ApplyWrites(store, SubSeq(ws, 1, k - 1))
        /\ last' = [kind |-> "provision", req |-> req, ok |-> FALSE, again |-> FALSE,
                    retry |-> FALSE, at |-> now, first |-> now]
        /\ prev' = store
        /\ nops' = nops + 1
        /\ UNCHANGED <<cfg, now, calls>>

ApiCall(kind, req, s) ==
    /\ nops < MaxSteps
    /\ last.ok
    /\ store' = s
    /\ last' = [kind |-> kind, req |-> req, ok |-> TRUE, again |-> FALSE, retry |-> FALSE,
                at |-> now, first |-> now]
    /\ prev' = store
    /\ nops' = nops + 1
    /\ UNCHANGED <<cfg, now, calls>>

\* POST /v201/accounts/{acid}/meta/refresh
MetaRefresh(c) ==
    ApiCall("meta_refresh", [acid |-> c.acid, org_id |-> c.org_id, name |-> AccountName],
            meta_refresh(store, c.acid, c.org_id, AccountName, now))

\* POST /v201/accounts/{acid}/profiles/person
AddPerson(c, p) ==
    ApiCall("add_person",
            [acid |-> c.acid, org_id |-> c.org_id, name |-> AccountName, person |-> p],
            add_person(store, c.acid, c.org_id, AccountName, p, now))

\* POST /v201/accounts/{acid}/profiles/company
AddCompany(c, co) ==
    ApiCall("add_company",
            [acid |-> c.acid, org_id |-> c.org_id, name |-> AccountName, company |-> co],
            add_company(store, c.acid, c.org_id, AccountName, co, now))

\* another actor puts an empty object into the bucket
OutOfBand(key) ==
    /\ nops < MaxSteps
    /\ last.ok
    /\ key \notin DOMAIN store
    /\ store' = ApplyWrites(store, ApiPut(key, TextBody(<<>>), NoContentType))
    /\ last' = [kind |-> "oob", req |-> key, ok |-> TRUE, again |-> FALSE, retry |-> FALSE,
                at |-> now, first |-> now]
    /\ prev' = store
    /\ nops' = nops + 1
    /\ UNCHANGED <<cfg, now, calls>>

\* a second passes
Tick ==
    /\ nops < MaxSteps
    /\ now < MaxClock
    /\ now' = now + 1
    /\ nops' = nops + 1
    /\ UNCHANGED <<cfg, store, last, prev, calls>>

Next ==
    \/ \E req \in ProvisionRequests : Provision(req)
    \/ MetaRefresh(Caller2)
    \/ AddPerson(Caller1, PersonSlash)
    \/ AddCompany(Caller2, CompanyC)
    \/ \E key \in OobKeys : OutOfBand(key)
    \/ Tick

Spec == Init /\ [][Next]_vars

\* Provisioning whose writes can fail: a call that failed is followed by nothing but
\* the passing of time and the same call made again.
AbortRequests ==
    {ProvisionRequest(Caller1, <<>>, <<>>),
     ProvisionRequest(Caller2, <<PersonSlash, PersonDashNoNotes>>, <<CompanyC>>)}

NextAbort ==
    \/ \E req \in AbortRequests : Provision(req)
    \/ \E req \in AbortRequests : \E k \in 1..Len(provision_account(req, now)) :
          ProvisionAbort(req, k)
    \/ AddPerson(Caller1, PersonSlash)
    \/ Tick

SpecAbort == Init /\ [][NextAbort]_vars

\* ------------------------------------------------- the endpoints and their secret
\* what a caller sends in x-internal-secret: nothing, or the secret of the deployment
Secrets == {NONE, <<"s3cret">>}

\* _auth_or_401, and the same test in provision_account_endpoint: TRUE when the call
\* goes on, FALSE when it is answered 401
_auth_or_401(secret) == ~(Truthy(cfg.secret) /\ secret # cfg.secret)

\* a call answered 401
Rejected(endpoint, req) ==
    /\ nops < MaxSteps
    /\ last.ok
    /\ last' = [kind |-> "rejected", req |-> req, ok |-> TRUE, again |-> FALSE,
                retry |-> FALSE, at |-> now, first |-> now, endpoint |-> endpoint]
    /\ prev' = store
    /\ nops' = nops + 1
    /\ UNCHANGED <<cfg, store, now, calls>>

\* entities sent without notes: None to provisioning, the schema's default "" to /v201
PersonNoNotes == Person(<<"B">>, <<>>, <<>>, <<>>)

CompanyNoNotes == Company(<<"A">>, NONE, <<>>)

WithSecret(req, secret) ==
    [k \in DOMAIN req \cup {"secret"} |-> IF k = "secret" THEN secret ELSE req[k]]

\* POST /provision-account with the secret the caller presents
provision_account_endpoint(secret, req) ==
    IF _auth_or_401(secret)
    THEN Provision(WithSecret(req, secret))
    ELSE Rejected("provision", WithSecret(req, secret))

\* POST /v201/accounts/{acid}/profiles/person with the secret the caller presents
PostAddPerson(secret, c, p) ==
    LET req == [acid |-> c.acid, org_id |-> c.org_id, name |-> AccountName,
                person |-> p, secret |-> secret]
    IN  IF _auth_or_401(secret)
        THEN ApiCall("add_person", req,
                     add_person(store, c.acid, c.org_id, AccountName, p, now))
        ELSE Rejected("add_person", req)

\* POST /v201/accounts/{acid}/profiles/company with the secret the caller presents
PostAddCompany(secret, c, co) ==
    LET req == [acid |-> c.acid, org_id |-> c.org_id, name |-> AccountName,
                company |-> co, secret |-> secret]
    IN  IF _auth_or_401(secret)
        THEN ApiCall("add_company", req,
                     add_company(store, c.acid, c.org_id, AccountName, co, now))
        ELSE Rejected("add_company", req)

\* POST /v201/accounts/{acid}/meta/refresh with the secret the caller presents
PostMetaRefresh(secret, c) ==
    LET req == [acid |-> c.acid, org_id |-> c.org_id, name |-> AccountName,
                secret |-> secret]
    IN  IF _auth_or_401(secret)
        THEN ApiCall("meta_refresh", req,
                     meta_refresh(store, c.acid, c.org_id, AccountName, now))
        ELSE Rejected("meta_refresh", req)

\* POST /v201/accounts/{acid}/upload-url: the stub answers without touching the bucket
get_upload_url(secret, c) ==
    LET req == [acid |-> c.acid, secret |-> secret]
    IN  IF _auth_or_401(secret)
        THEN ApiCall("upload_url", req, store)
        ELSE Rejected("upload_url", req)

NextApi ==
    \/ \E secret \in Secrets :
          provision_account_endpoint(secret,
              ProvisionRequest(Caller1, <<PersonDashNoNotes>>, <<CompanyNoNotes>>))
    \/ \E secret \in Secrets : PostAddPerson(secret, Caller1, PersonNoNotes)
    \/ \E secret \in Secrets : PostAddCompany(secret, Caller2, CompanyNoNotes)
    \/ \E secret \in Secrets : PostMetaRefresh(secret, Caller2)
    \/ \E secret \in Secrets : get_upload_url(secret, Caller1)
    \/ Tick

SpecApi == Init /\ [][NextApi]_vars

\* ------------------------------------------------- refresh calls in flight together
\* a put_object that leaves alone a key that already holds an object
PutObjectIfAbsent(s, w) == IF w.key \in DOMAIN s THEN s ELSE ApplyWrites(s, <<w>>)

\* one s3.put_object call reaching the bucket
PutObject(s, w) == ApplyWrites(s, <<w>>)

\* the account every refresh call in flight is for
RefreshCaller == Caller2

Highest(field) ==
    LET ns == {calls[q][field] : q \in Procs}
    IN  CHOOSE n \in ns : \A m \in ns : m <= n

\* meta_refresh up to its listing pass: _ensure_top
RefreshEnsureTop(p) ==
    /\ calls[p].pc = "idle"
    /\ store' = ApplyWrites(store, _ensure_top(_fmt_acid_display(RefreshCaller.acid)))
    /\ calls' = [calls EXCEPT ![p].pc = "top"]
    /\ UNCHANGED <<cfg, now, last, prev, nops>>

\* _refresh_meta's listing pass: _discover_profiles, and the two documents built from it
RefreshDiscover(p) ==
    /\ calls[p].pc = "top"
    /\ calls' = [calls EXCEPT ![p].pc = "listed",
                              ![p].found = _refresh_meta(store, RefreshCaller.acid,
                                               RefreshCaller.org_id, AccountName, now),
                              ![p].listed = Highest("listed") + 1]
    /\ UNCHANGED <<cfg, store, now, last, prev, nops>>

\* _refresh_meta's write of account.json
RefreshPutAccount(p) ==
    /\ calls[p].pc = "listed"
    /\ store' = PutObject(store, calls[p].found[1])
    /\ calls' = [calls EXCEPT ![p].pc = "account", ![p].put = Highest("put") + 1]
    /\ UNCHANGED <<cfg, now, last, prev, nops>>

\* _refresh_meta's write of relationships.json, after which the call returns
RefreshPutRelationships(p) ==
    /\ calls[p].pc = "account"
    /\ store' = PutObject(store, calls[p].found[2])
    /\ calls' = [calls EXCEPT ![p].pc = "done", ![p].wrote = Highest("wrote") + 1]
    /\ UNCHANGED <<cfg, now, last, prev, nops>>

NextRefresh ==
    \/ \E p \in Procs : RefreshEnsureTop(p)
    \/ \E p \in Procs : RefreshDiscover(p)
    \/ \E p \in Procs : RefreshPutAccount(p)
    \/ \E p \in Procs : RefreshPutRelationships(p)
    \/ \E key \in OobKeys : OutOfBand(key)
    \/ Tick

SpecRefresh == Init /\ [][NextRefresh]_vars

\* ------------------------------------------------- /v201 calls in flight together
\* what the calls in flight add to the account
AddedPerson == PersonA

AddedCompany == CompanyNoNotes

\* add_person up to its listing pass: every write of the handler before _refresh_meta
AddPersonBegin(p) ==
    /\ calls[p].pc = "idle"
    /\ store' = ApplyWrites(store, AddPersonWrites(_fmt_acid_display(RefreshCaller.acid),
                                                   AddedPerson))
    /\ calls' = [calls EXCEPT ![p].pc = "top"]
    /\ UNCHANGED <<cfg, now, last, prev, nops>>

\* add_company up to its listing pass: every write of the handler before _refresh_meta
AddCompanyBegin(p) ==
    /\ calls[p].pc = "idle"
    /\ store' = ApplyWrites(store, AddCompanyWrites(_fmt_acid_display(RefreshCaller.acid),
                                                    AddedCompany))
    /\ calls' = [calls EXCEPT ![p].pc = "top"]
    /\ UNCHANGED <<cfg, now, last, prev, nops>>

\* two calls on one account, each a refresh, an add person or an add company, their
\* steps interleaved in every order
NextCalls ==
    \/ \E p \in Procs : RefreshEnsureTop(p)
    \/ \E p \in Procs : AddPersonBegin(p)
    \/ \E p \in Procs : AddCompanyBegin(p)
    \/ \E p \in Procs : RefreshDiscover(p)
    \/ \E p \in Procs : RefreshPutAccount(p)
    \/ \E p \in Procs : RefreshPutRelationships(p)

SpecCalls == Init /\ [][NextCalls]_vars

\* ------------------------------------------------- the identifier conversions
Base62 ==
    {"a", "b", "c", "d", "e", "f", "g", "h", "i", "j", "k", "l", "m", "n", "o", "p", "q",
     "r", "s", "t", "u", "v", "w", "x", "y", "z", "A", "B", "C", "D", "E", "F", "G", "H",
     "I", "J", "K", "L", "M", "N", "O", "P", "Q", "R", "S", "T", "U", "V", "W", "X", "Y",
     "Z", "0", "1", "2", "3", "4", "5", "6", "7", "8", "9"}

\* what models.py's validator accepts: [A-Za-z0-9]{9}
IsRaw9(x) == Len(x) = 9 /\ \A i \in 1..9 : x[i] \in Base62

\* raw identifiers, as the three groups the display form separates
RawAcids ==
    {g3 \o g2 \o g4 :
        g3 \in {<<"a", "b", "c">>, <<"a", "c", "i">>, <<"Z", "0", "9">>, <<"0", "0", "0">>,
                <<"x", "Y", "7">>},
        g2 \in {<<"1", "2">>, <<"d", "x">>, <<"Q", "q">>},
        g4 \in {<<"3", "X", "Y", "Z">>, <<"a", "c", "i", "d">>, <<"0", "0", "0", "1">>,
                <<"m", "N", "4", "k">>}}

\* identifiers as a caller can send them: raw, display, and malformed in the ways the
\* conversions treat differently (empty, short, the bare prefix, the prefix and dashes,
\* a short display, too long, dashes without the prefix, the prefix without dashes,
\* surrounding white space)
AcidInputs ==
    RawAcids
    \cup {fmt_acid_display(r) : r \in RawAcids}
    \cup {<<>>,
          <<"a", "b", "c">>,
          AcidPrefix,
          AcidPrefix \o <<"-", "-">>,
          AcidPrefix \o <<"a", "b", "c">>,
          RawAcid \o <<"4", "5", "6">>,
          <<"a", "b", "c", "-", "1", "2", "-", "3", "X", "Y", "Z">>,
          AcidPrefix \o RawAcid,
          fmt_acid_display(RawAcid) \o <<" ">>,
          <<" ">> \o RawAcid,
          <<"a", "b", "c", " ">>}

\* every conversion of the two modules applied to one identifier
Conversions(x) ==
    [display |-> fmt_acid_display(x),
     raw |-> to_raw_acid(x),
     roundtrip |-> to_raw_acid(fmt_acid_display(x)),
     normalized |-> normalize_acid(x),
     api_display |-> _fmt_acid_display(x),
     provision_base |-> ProvisionBase(x),
     api_base |-> _base(_fmt_acid_display(x))]

ConvertCall(x) ==
    [kind |-> "acid", req |-> x, ok |-> TRUE, again |-> FALSE, retry |-> FALSE,
     at |-> now, first |-> now, out |-> Conversions(x)]

\* an identifier arrives and is converted
Convert(x) ==
    /\ nops = 0
    /\ last' = ConvertCall(x)
    /\ nops' = nops + 1
    /\ UNCHANGED <<cfg, store, now, prev, calls>>

\* what the conversion returned is converted again: the display form when again = "display",
\* the raw form otherwise
ConvertAgain(again) ==
    /\ 0 < nops
    /\ nops < MaxSteps
    /\ last.kind = "acid"
    /\ last' = ConvertCall(IF again = "display" THEN last.out.display ELSE last.out.raw)
    /\ nops' = nops + 1
    /\ UNCHANGED <<cfg, store, now, prev, calls>>

NextAcid ==
    \/ \E x \in AcidInputs : Convert(x)
    \/ \E again \in {"display", "raw"} : ConvertAgain(again)

SpecAcid == Init /\ [][NextAcid]_vars

\* ------------------------------------------------- what the claims speak of
\* the display form of the one account of the model
Disp == fmt_acid_display(RawAcid)

\* the sections of the account as provisioning lays them out
Tops == _folders_top(ProvisionBase(RawAcid), cfg.numbered)

\* every immediate child prefix of a prefix, however long the listing
Children(s, prefix) ==
    {prefix \o e : e \in {f \in ListingEntries(s, prefix) : f # <<>> /\ f[Len(f)] = "/"}}

ChildNames(s, prefix) == {EntityName(c) : c \in Children(s, prefix)}

Range(f) == {f[i] : i \in DOMAIN f}

Names(records) == {records[i].name : i \in DOMAIN records}

Paths(records) == {records[i].path : i \in DOMAIN records}

\* the JSON document stored at a key
Doc(s, key) == s[key].body.json

ProvisionDone == last.kind = "provision" /\ last.ok

\* the names provisioning seeds for a request: the payload's, or the default
SeededPersons(req) ==
    IF req.persons = <<>> THEN {<<"Default Person">>}
    ELSE Range(SeedCreated([persons |-> req.persons, companies |-> req.companies]).persons)

SeededCompanies(req) ==
    IF req.companies = <<>> THEN {<<"Default Company">>}
    ELSE Range(SeedCreated([persons |-> req.persons, companies |-> req.companies]).companies)

\* C1: once a provisioning call has completed, account.json's profiles summary and
\* relationships.json list every person and company the call seeded.
C1_MetadataReflectsSeeding ==
    ProvisionDone =>
        LET account == Doc(store, Tops["_meta"] \o <<"account.json">>)
            rel == Doc(store, Tops["_meta"] \o <<"relationships.json">>)
        IN  /\ "profiles" \in DOMAIN account
            /\ SeededPersons(last.req) \subseteq Names(rel.people)
            /\ SeededCompanies(last.req) \subseteq Names(rel.companies)
            /\ SeededPersons(last.req) \subseteq Names(account.profiles.persons)
            /\ SeededCompanies(last.req) \subseteq Names(account.profiles.companies)

\* C2: a metadata refresh changes no object but account.json and relationships.json:
\* every other key exists after the call exactly if it did before, with the same object.
C2_RefreshTouchesOnlyMetadata ==
    last.kind = "meta_refresh" =>
        \A k \in (DOMAIN store \cup DOMAIN prev) \ {AccountKey(Disp), RelationshipsKey(Disp)} :
            /\ k \in DOMAIN store
            /\ k \in DOMAIN prev
            /\ store[k] = prev[k]

\* the person folder another actor added under the account's profiles prefix
OobKey == AccountProfiles \o <<"person", "/">> \o OobPerson \o <<"/">>

\* C3: when a person folder was added out of band under the account's profiles/person/
\* prefix, the relationships.json the next metadata refresh writes lists that person.
C3_RefreshSeesOutOfBandPerson ==
    (last.kind = "meta_refresh" /\ OobKey \in DOMAIN prev) =>
        OobPerson \in Names(Doc(store, RelationshipsKey(Disp)).people)

\* the relationships discovery derives from the current store
Discovered == _discover_profiles(store, Disp, now).relationships

PersonRoot == _profiles_base(Disp) \o <<"person", "/">>

CompanyRoot == _profiles_base(Disp) \o <<"company", "/">>

\* some key of the store lies under the prefix
Present(s, prefix) == \E k \in DOMAIN s : StartsWith(k, prefix)

\* the records of one kind of sub-entity are exactly the children of the owners' prefixes
OwnedExactly(records, owners, kind, otype) ==
    /\ Paths(records) = UNION {Children(store, o \o <<kind, "/">>) : o \in owners}
    /\ Len(records) = Cardinality(Paths(records))
    /\ \A i \in DOMAIN records :
          /\ records[i].owner_type = otype
          /\ \E o \in owners :
                /\ records[i].owner_name = EntityName(o)
                /\ StartsWith(records[i].path, o \o <<kind, "/">>)

\* C4: in every store state discovery returns exactly one record per immediate child
\* prefix of profiles/person/, of profiles/company/, of each person's device/ and
\* vehicle/ and of each company's domain/; each sub-entity names the owner it lies
\* under, and every returned path is a prefix present in the store.
C4_DiscoveryMatchesTree ==
    LET d == Discovered
        persons == Children(store, PersonRoot)
        companies == Children(store, CompanyRoot)
    IN  /\ Paths(d.people) = persons
        /\ Len(d.people) = Cardinality(persons)
        /\ Paths(d.companies) = companies
        /\ Len(d.companies) = Cardinality(companies)
        /\ OwnedExactly(d.devices, persons, "device", "person")
        /\ OwnedExactly(d.vehicles, persons, "vehicle", "person")
        /\ OwnedExactly(d.domains, companies, "domain", "company")
        /\ \A p \in Paths(d.people) \cup Paths(d.companies) \cup Paths(d.devices)
                    \cup Paths(d.vehicles) \cup Paths(d.domains) : Present(store, p)

\* a listing of the prefix holds more entries than one call returns
Truncated(s, prefix) == Cardinality(ListingEntries(s, prefix)) > MaxKeys

\* C5: whenever a listing discovery needs (of persons, of companies, of a person's
\* devices or vehicles, of a company's domains) is longer than one page, discovery still
\* returns every child of it.
C5_DiscoveryListsEveryPage ==
    LET d == Discovered
        all(root, records) ==
            Truncated(store, root) => Children(store, root) \subseteq Paths(records)
    IN  /\ all(PersonRoot, d.people)
        /\ all(CompanyRoot, d.companies)
        /\ \A p \in Children(store, PersonRoot) :
              /\ all(p \o <<"device", "/">>, d.devices)
              /\ all(p \o <<"vehicle", "/">>, d.vehicles)
        /\ \A c \in Children(store, CompanyRoot) : all(c \o <<"domain", "/">>, d.domains)

\* ------------------------------------------------- C6
\* the keys of a store under the account's profiles prefix
ProfileKeys(s) == {k \in DOMAIN s : StartsWith(k, _profiles_base(Disp))}

\* a store with the two metadata documents of the account removed
WithoutMetadata(s) ==
    [k \in DOMAIN s \ {AccountKey(Disp), RelationshipsKey(Disp)} |-> s[k]]

\* a store cut down to what lies under the account's profiles prefix
OnlyProfiles(s) == [k \in ProfileKeys(s) |-> s[k]]

\* the lists discovery returns from a store
DiscoveredFrom(s) ==
    LET r == _discover_profiles(s, Disp, now).relationships
    IN  <<r.people, r.companies, r.devices, r.vehicles, r.domains>>

\* C6: two stores that hold the same keys under the account's profiles prefix give the same
\* people, companies, devices, vehicles and domains, whatever else they hold; here the
\* store, the store before the last call, and the store without its metadata documents
\* or without anything outside the profiles prefix.
C6_DiscoveryReadsOnlyProfiles ==
    LET d == DiscoveredFrom(store)
    IN  /\ d = DiscoveredFrom(OnlyProfiles(store))
        /\ d = DiscoveredFrom(WithoutMetadata(store))
        /\ ProfileKeys(prev) = ProfileKeys(store) => d = DiscoveredFrom(prev)

\* a call rewrote the metadata documents of a populated account and left its profile keys
C6_Witness ==
    /\ last.kind \in {"provision", "meta_refresh"}
    /\ ProfileKeys(store) = ProfileKeys(prev)
    /\ ProfileKeys(store) # {}
    /\ RelationshipsKey(Disp) \in DOMAIN store
    /\ RelationshipsKey(Disp) \in DOMAIN prev
    /\ store[RelationshipsKey(Disp)] # prev[RelationshipsKey(Disp)]
    /\ DiscoveredFrom(store)[1] # <<>>

\* ------------------------------------------------- C7
AccountJsonKey == Tops["_meta"] \o <<"account.json">>

\* C7 as stated: a provisioning call that follows a completed one with the same input
\* leaves the store, keys and contents, exactly as the first call left it.
C7_SecondProvisionChangesNothing == last.again => store = prev

\* C7: a provisioning call that follows a completed one with the same input leaves the
\* same keys and the same objects as the first call left, but for the created_at of
\* account.json, which becomes the time of the second call.
C7_SecondProvisionMovesOnlyCreatedAt ==
    last.again =>
        /\ DOMAIN store = DOMAIN prev
        /\ \A k \in DOMAIN store :
              store[k] = IF k = AccountJsonKey
                         THEN [prev[k] EXCEPT !.body.json.created_at = EpochSeconds(last.at)]
                         ELSE prev[k]

\* the same call was made twice, a second apart, and the store differs
C7_Witness == last.again /\ store # prev /\ AccountJsonKey \in DOMAIN prev

\* ------------------------------------------------- C8
\* C8 as stated: a call that failed at one of its writes and was made again to
\* completion leaves the store a single successful call, made when the failed one was
\* made, would have left from the store before the failure.
C8_RetryEqualsTheFirstCall ==
    (last.retry /\ last.ok) => store = ApplyWrites(prev, provision_account(last.req, last.first))

\* C8: a call that failed at one of its writes and was made again to completion leaves
\* the store a single successful call would have left from the store before the
\* failure, the created_at of account.json being the time of the call that completed.
C8_RetryEqualsOneCall ==
    (last.retry /\ last.ok) =>
        store = ApplyWrites(prev, provision_account(last.req, last.at))

\* a call failed, time passed, the call was made again and completed
C8_Witness == last.retry /\ last.ok /\ last.first # last.at

\* ------------------------------------------------- C9
SeedPersonRoot == Tops["profiles"] \o <<"person", "/">>

SeedCompanyRoot == Tops["profiles"] \o <<"company", "/">>

\* no person and no company under the profiles prefix provisioning seeds into
EmptyProfilesTree(s) == Children(s, SeedPersonRoot) = {} /\ Children(s, SeedCompanyRoot) = {}

\* the store after seedProfiles and seedDefaultsIfEmpty ran on s for a request
Seeded(s, req) ==
    LET payload == [persons |-> req.persons, companies |-> req.companies]
        raw == normalize_acid(req.acid).raw
    IN  ApplyWrites(s, _seed_from_payload(Tops, payload, raw, req.org_id)
                       \o _seed_defaults_if_empty(Tops, SeedCreated(payload), raw, req.org_id))

\* the persons and companies of s are the payload's, each list replaced by its default
\* when it is empty
SeededPerList(s, req) ==
    LET default == SeedPersonRoot \o <<"Default Person", "/">>
    IN  /\ ChildNames(s, SeedPersonRoot) =
              IF req.persons = <<>> THEN {<<"Default Person">>}
              ELSE {sanitize_name(req.persons[i].name) : i \in DOMAIN req.persons}
        /\ ChildNames(s, SeedCompanyRoot) =
              IF req.companies = <<>> THEN {<<"Default Company">>}
              ELSE {sanitize_name(req.companies[i].name) : i \in DOMAIN req.companies}
        /\ req.persons = <<>> =>
              /\ ChildNames(s, default \o <<"device", "/">>) = {<<"Default Device">>}
              /\ ChildNames(s, default \o <<"vehicle", "/">>) = {<<"Default Vehicle">>}

\* C9: seeding into an empty profiles tree creates, for persons, exactly the payload's
\* persons, or when the payload has none exactly Default Person with exactly one device
\* and one vehicle; and for companies exactly the payload's companies, or when the
\* payload has none exactly Default Company; each list is decided on its own. So it is
\* for the two seeding steps alone, and for the whole provisioning call unless the
\* legacy demo set is switched on.
C9_DefaultsDecidedPerList ==
    (ProvisionDone /\ EmptyProfilesTree(prev)) =>
        /\ SeededPerList(Seeded(prev, last.req), last.req)
        /\ ~cfg.samples => SeededPerList(store, last.req)

\* a payload with a person and no company was seeded into an empty profiles tree
C9_Witness ==
    /\ ProvisionDone
    /\ EmptyProfilesTree(prev)
    /\ last.req.persons # <<>>
    /\ last.req.companies = <<>>
    /\ <<"Default Company">> \in ChildNames(store, SeedCompanyRoot)

\* ------------------------------------------------- C10
\* C10: after provisioning seeded two persons whose names differ and sanitize to the
\* same safe name, one person prefix carries that name, its notes.md is the one written
\* for the second person (when the second person has notes), and discovery reports
\* exactly one person of that name.
C10_CollisionLeavesOnePerson ==
    (/\ ProvisionDone
     /\ Len(last.req.persons) = 2
     /\ last.req.persons[1].name # last.req.persons[2].name
     /\ sanitize_name(last.req.persons[1].name) = sanitize_name(last.req.persons[2].name)) =>
        LET second == last.req.persons[2]
            safe == sanitize_name(second.name)
            root == SeedPersonRoot \o safe \o <<"/">>
        IN  /\ {c \in Children(store, SeedPersonRoot) : EntityName(c) = safe} = {root}
            /\ Truthy(second.notes) =>
                  store[root \o <<"notes.md">>].body =
                      TextBody(<<"# ">> \o safe \o <<"\n\n">> \o second.notes \o <<"\n">>)
            /\ Cardinality({i \in DOMAIN Discovered.people :
                               Discovered.people[i].name = safe}) = 1

\* ------------------------------------------------- C11
\* the calls of this program that write
WritingKinds == {"provision", "meta_refresh", "add_person", "add_company"}

\* the keys the last call wrote, as far as the store shows it
WrittenByLast == {k \in DOMAIN store : k \notin DOMAIN prev \/ store[k] # prev[k]}

\* C11: every object a call of this program wrote carries the acid tag, the org tag
\* when the call was given an organization id, and server-side encryption: no object but
\* those another actor put lacks tags or encryption, and the objects the last call wrote
\* carry exactly the tags and the encryption of that call.
C11_EveryWriteTaggedAndEncrypted ==
    /\ \A k \in DOMAIN store \ OobKeys :
          /\ store[k].tags # NONE
          /\ store[k].sse # NONE
    /\ last.kind \in WritingKinds =>
          \A k \in WrittenByLast :
              /\ store[k].tags = _tagging(RawAcid, last.req.org_id)
              /\ store[k].sse = _sse_kwargs

\* ------------------------------------------------- C12
\* the calls made through a secret-protected endpoint, answered 401 or not
ProtectedKinds == WritingKinds \cup {"upload_url", "rejected"}

\* C12: a call to a secret-protected endpoint whose x-internal-secret is not the
\* configured secret leaves the store as it was.
C12_WrongSecretChangesNothing ==
    (last.kind \in ProtectedKinds /\ "secret" \in DOMAIN last.req
        /\ last.req.secret # cfg.secret) => store = prev

\* ------------------------------------------------- C20
\* the prefix of the entity the last call seeded without notes, and the sub-prefixes the
\* call gives every such entity; <<>> when the call seeded none
SeededWithoutNotes ==
    IF last.kind = "provision" /\ last.ok
    THEN {[root |-> SeedPersonRoot \o sanitize_name(last.req.persons[i].name) \o <<"/">>,
           subs |-> {"documents", "vehicle", "device"}] :
             i \in {j \in DOMAIN last.req.persons : ~Truthy(last.req.persons[j].notes)}}
         \cup
         {[root |-> SeedCompanyRoot \o sanitize_name(last.req.companies[i].name) \o <<"/">>,
           subs |-> {"legal", "financials", "domain"}] :
             i \in {j \in DOMAIN last.req.companies : ~Truthy(last.req.companies[j].notes)}}
    ELSE IF last.kind = "add_person" /\ ~Truthy(last.req.person.notes)
    THEN {[root |-> PersonRoot \o Strip(last.req.person.name) \o <<"/">>,
           subs |-> {"documents", "vehicle", "device"}]}
    ELSE IF last.kind = "add_company" /\ ~Truthy(last.req.company.notes)
    THEN {[root |-> CompanyRoot \o Strip(last.req.company.name) \o <<"/">>,
           subs |-> {"legal", "financials", "domain"}]}
    ELSE {}

\* C20: after provisioning, add person or add company seeded an entity whose notes were
\* absent or empty, on a store that held no notes.md at the entity's prefix, the
\* entity's marker and its fixed sub-prefixes exist and there is still no notes.md at
\* the entity's prefix.
C20_NoNotesFileWithoutNotes ==
    \A e \in SeededWithoutNotes :
        (e.root \o <<"notes.md">>) \notin DOMAIN prev =>
            /\ e.root \in DOMAIN store
            /\ \A sub \in e.subs : (e.root \o <<sub, "/">>) \in DOMAIN store
            /\ (e.root \o <<"notes.md">>) \notin DOMAIN store

\* ------------------------------------------------- C13
BothRefreshesDone == \A p \in Procs : calls[p].pc = "done"

\* the call whose listing pass ran last, and the one whose relationships.json write did
LastLister == CHOOSE p \in Procs : calls[p].listed = Highest("listed")

LastWriter == CHOOSE p \in Procs : calls[p].wrote = Highest("wrote")

RefreshedRelationships ==
    store[RelationshipsKey(_fmt_acid_display(RefreshCaller.acid))]

\* C13 as stated: once two refresh calls that ran together have both completed,
\* relationships.json is the snapshot of the call whose listing pass ran last.
C13_LastListerWins ==
    BothRefreshesDone => RefreshedRelationships = calls[LastLister].found[2].obj

\* C13: once two refresh calls that ran together have both completed, relationships.json
\* is the snapshot of the call that wrote relationships.json last, whichever call
\* listed last.
C13_LastWriterWins ==
    BothRefreshesDone => RefreshedRelationships = calls[LastWriter].found[2].obj

\* both calls are done, the one that listed first wrote last, and the person added between
\* the two listing passes is in the later snapshot and not in relationships.json
C13_Witness ==
    /\ BothRefreshesDone
    /\ LastLister # LastWriter
    /\ OobPerson \in Names(calls[LastLister].found[2].obj.body.json.people)
    /\ OobPerson \notin Names(RefreshedRelationships.body.json.people)

\* ------------------------------------------------- C14
\* C14: every account.json in the store, under either layout's _meta prefix, has the raw
\* identifier in acid (no "acid-" prefix, no dash) and fmt_acid_display of that raw
\* identifier in acid_display.
C14_AccountJsonHoldsBothForms ==
    \A k \in {AccountKey(Disp), AccountJsonKey} \cap DOMAIN store :
        LET account == Doc(store, k)
        IN  /\ ~StartsWith(account.acid, AcidPrefix)
            /\ "-" \notin Range(account.acid)
            /\ account.acid_display = fmt_acid_display(account.acid)

\* ------------------------------------------------- C15
Converted == last.kind = "acid"

\* C15: for every raw identifier r of 9 base62 characters,
\* to_raw_acid(fmt_acid_display(r)) = r.
C15_RawRoundTrip ==
    (Converted /\ IsRaw9(last.req)) => last.out.roundtrip = last.req

\* a raw identifier was formatted, to a display form that differs from it, and parsed back
C15_Witness ==
    /\ Converted
    /\ IsRaw9(last.req)
    /\ last.out.display = AcidPrefix \o Slice(last.req, 0, 3) \o <<"-">>
                              \o Slice(last.req, 3, 5) \o <<"-">> \o Slice(last.req, 5, 9)
    /\ last.out.roundtrip = last.req

\* ------------------------------------------------- C16
\* C16: formatting the display form of a raw identifier again returns it unchanged, and
\* every input that starts with "acid-" is returned unchanged, by fmt_acid_display of
\* aws.py and by _fmt_acid_display of api_v201.py alike.
C16_FormatDisplayIdempotent ==
    Converted =>
        /\ IsRaw9(last.req) =>
              /\ fmt_acid_display(last.out.display) = last.out.display
              /\ _fmt_acid_display(last.out.api_display) = last.out.api_display
        /\ StartsWith(last.req, AcidPrefix) =>
              /\ last.out.display = last.req
              /\ last.out.api_display = last.req

\* ------------------------------------------------- C17
\* C17: for every input, normalize_acid returns a raw form and a display form with
\* fmt_acid_display(raw) = display.
C17_NormalizeFormsAgree ==
    Converted => fmt_acid_display(last.out.normalized.raw) = last.out.normalized.disp

\* ------------------------------------------------- C18
\* C18: an input without the prefix and shorter than 9 characters is returned unchanged
\* by both implementations of formatDisplay, so that provisioning and the /v201
\* endpoints derive the same account base prefix for it.
C18_ShortIdentifierPassesThrough ==
    (Converted /\ ~StartsWith(last.req, AcidPrefix) /\ Len(last.req) < 9) =>
        /\ last.out.display = last.req
        /\ last.out.api_display = last.req
        /\ last.out.provision_base = last.out.api_base

\* ------------------------------------------------- C19
\* the prefixes discovery reports, of every kind
ReportedPaths ==
    Paths(Discovered.people) \cup Paths(Discovered.companies) \cup Paths(Discovered.devices)
        \cup Paths(Discovered.vehicles) \cup Paths(Discovered.domains)

\* the keys that are the marker of a person, company, device, vehicle or domain: the
\* zero-length object at profiles/<kind>/<name>/ or, for any owner prefix, at
\* <owner>/<kind>/<name>/
EntityMarkers ==
    LET under(root) ==
            {k \in DOMAIN store :
                /\ StartsWith(k, root)
                /\ Len(k) > Len(root) + 1
                /\ k[Len(k)] = "/"
                /\ FirstSlash(Slice(k, Len(root), Len(k))) = Len(k) - Len(root)}
    IN  under(PersonRoot) \cup under(CompanyRoot)
        \cup UNION {under(o \o <<"device", "/">>) \cup under(o \o <<"vehicle", "/">>) :
                       o \in Children(store, PersonRoot)}
        \cup UNION {under(o \o <<"domain", "/">>) : o \in Children(store, CompanyRoot)}

\* C19: discovery reports a person, company, device, vehicle or domain exactly when the
\* entity's own marker object is in the store.
C19_ReportedIffMarkerPresent == ReportedPaths = EntityMarkers

\* ------------------------------------------------- C21
\* the writes the defaults step of a provisioning call makes for a request
DefaultWrites(req) ==
    _seed_defaults_if_empty(Tops, SeedCreated([persons |-> req.persons,
                                               companies |-> req.companies]),
                            normalize_acid(req.acid).raw, req.org_id)

\* the call created a Default Person or a Default Company
CreatedDefault(req) ==
    \E i \in DOMAIN DefaultWrites(req) :
        DefaultWrites(req)[i].key \in {SeedPersonRoot \o <<"Default Person", "/">>,
                                       SeedCompanyRoot \o <<"Default Company", "/">>}

\* C21: the defaults_used flag of a provisioning response is true exactly when the call
\* created a Default Person or a Default Company; so it is true for a payload with one
\* person and no company, which gets the default company.
C21_DefaultsUsedIffDefaultCreated ==
    ProvisionDone => last.resp.profiles_seeded.defaults_used = CreatedDefault(last.req)

\* ------------------------------------------------- C22
\* no call is in progress
Quiescent == \A p \in Procs : calls[p].pc \in {"idle", "done"}

\* the call whose account.json write ran last
LastPutter == CHOOSE p \in Procs : calls[p].put = Highest("put")

MetaAccount == Doc(store, AccountKey(_fmt_acid_display(RefreshCaller.acid)))

MetaRelationships == Doc(store, RelationshipsKey(_fmt_acid_display(RefreshCaller.acid)))

\* the two documents are there and list the same persons and the same companies
DocumentsAgree ==
    /\ MetaAccount.profiles.persons = MetaRelationships.people
    /\ MetaAccount.profiles.companies = MetaRelationships.companies

SomeCallDone == \E p \in Procs : calls[p].pc = "done"

\* C22 as stated: in every quiescent state reached by interleaved refresh, add person and
\* add company calls on one account, the persons and companies embedded in account.json
\* are the people and companies of relationships.json.
C22_QuiescentDocumentsAgree == (Quiescent /\ SomeCallDone) => DocumentsAgree

\* C22: in every quiescent state reached by interleaved refresh, add person and add
\* company calls on one account, account.json embeds the listing of the call that wrote
\* account.json last and relationships.json holds the listing of the call that wrote
\* relationships.json last; the two documents agree whenever that is the same call.
C22_DocumentsOfOneCallAgree ==
    (Quiescent /\ SomeCallDone) =>
        /\ MetaAccount = calls[LastPutter].found[1].obj.body.json
        /\ MetaRelationships = calls[LastWriter].found[2].obj.body.json
        /\ LastPutter = LastWriter => DocumentsAgree

\* two calls ran together and listed different things, one of them wrote both documents
\* last, and the documents agree on a person
C22_Witness ==
    /\ \A p \in Procs : calls[p].pc = "done"
    /\ calls[1].found[2] # calls[2].found[2]
    /\ LastPutter = LastWriter
    /\ LastLister # LastWriter
    /\ MetaRelationships.people # <<>>
    /\ DocumentsAgree

\* ------------------------------------------------- C23
\* the last call is a metadata refresh of an account whose account.json was, until
\* then, the one provisioning wrote
RefreshedAfterProvision ==
    /\ last.kind = "meta_refresh"
    /\ AccountJsonKey \in DOMAIN prev
    /\ "version" \in DOMAIN Doc(prev, AccountJsonKey)

\* the key a link names
LinkedPrefix(link) == Slice(link, Len(<<"s3://">> \o S3_BUCKET \o <<"/">>), Len(link))

\* C23: under either layout mode, after provisioning and then a metadata refresh of the
\* account, discovery lists under the profiles prefix provisioning wrote to,
\* relationships.json names every person and company under that prefix, and the
\* account.json of the refresh carries the layout provisioning used and links that name
\* the section prefixes of that layout, whose markers exist.
C23_EntrypointsAgreeOnLayout ==
    RefreshedAfterProvision =>
        LET account == Doc(store, AccountKey(Disp))
            rel == Doc(store, RelationshipsKey(Disp))
        IN  /\ _profiles_base(Disp) = Tops["profiles"]
            /\ ChildNames(prev, SeedPersonRoot) \subseteq Names(rel.people)
            /\ ChildNames(prev, SeedCompanyRoot) \subseteq Names(rel.companies)
            /\ account.layout = Doc(prev, AccountJsonKey).layout
            /\ \A sec \in DOMAIN account.links :
                  /\ LinkedPrefix(account.links[sec]) = Tops[sec]
                  /\ LinkedPrefix(account.links[sec]) \in DOMAIN store

\* ------------------------------------------------- C24
EntityAdded == last.kind \in {"add_person", "add_company"}

\* what the last call was given: the entity, the prefix entities of its kind lie under,
\* the records of its kind, and the names declared for it with the records of theirs
Supplied ==
    LET rel == Doc(store, RelationshipsKey(Disp))
    IN  IF last.kind = "add_person"
        THEN [name |-> last.req.person.name, root |-> PersonRoot, records |-> rel.people,
              owned |-> << <<last.req.person.devices, rel.devices>>,
                           <<last.req.person.vehicles, rel.vehicles>> >>,
              writes |-> AddPersonWrites(Disp, last.req.person)]
        ELSE [name |-> last.req.company.name, root |-> CompanyRoot,
              records |-> rel.companies,
              owned |-> << <<last.req.company.domains, rel.domains>> >>,
              writes |-> AddCompanyWrites(Disp, last.req.company)]

\* the names a record of a supplied name can carry: the name trimmed, or sanitized
NamesFor(name) == {Strip(name), sanitize_name(name)}

\* C24: after add person or add company, whatever the names (a "/" or "\" in them
\* included), the relationships the call returns hold exactly one record of the
\* supplied person or company, and for each declared device, vehicle or domain exactly
\* one record that names that entity as its owner; and every key the call wrote under
\* the prefix of its kind has the entity's name as one path segment.
C24_AddedEntityIsOneRecord ==
    EntityAdded =>
        LET e == Supplied
            n(records, names) == Cardinality({i \in DOMAIN records : records[i].name \in names})
        IN  /\ n(e.records, NamesFor(e.name)) = 1
            /\ \A j \in DOMAIN e.owned : \A d \in Range(e.owned[j][1]) :
                  Cardinality({i \in DOMAIN e.owned[j][2] :
                                  /\ e.owned[j][2][i].name \in NamesFor(d)
                                  /\ e.owned[j][2][i].owner_name \in NamesFor(e.name)}) = 1
            /\ \A i \in DOMAIN e.writes :
                  StartsWith(e.writes[i].key, e.root) =>
                      \E name \in NamesFor(e.name) :
                          /\ "/" \notin Range(name)
                          /\ StartsWith(e.writes[i].key, e.root \o name \o <<"/">>)

====
